---- MODULE Spec2Model ----
(***************************************************************************)
(* NIO::Selector (ext/nio4r/selector.c): the registration table, the       *)
(* re-entrant selector lock, the run loop over the libev event loop, the   *)
(* self-pipe wakeup channel and the shutdown path.                         *)
(*                                                                         *)
(* One Selector object is shared by the Ruby threads in Threads.  A step   *)
(* of the model is a stretch of C code that runs without giving another    *)
(* Ruby thread the chance to run; the places where a thread can be         *)
(* suspended are Mutex#lock, the system call inside ev_loop, rb_yield      *)
(* (the block given to select) and rb_thread_schedule.                     *)
(***************************************************************************)
EXTENDS Integers, Sequences, FiniteSets, TLC

\* ------------------------------------------------------------------ bounds
Threads == {"t1", "t2"}
Handles == {"h1", "h2"}
\* Number of NIO::Monitor objects that can be created in one behaviour.
MaxMonitors == 2
\* Number of bytes the wakeup pipe holds before write(2) blocks.
PipeCap == 2

\* ------------------------------------------------------------------ values
Qnil == "nil"
Flags == {"r", "w"}
\* The interest sets registered: :r.  (A handle that is ready for writing only
\* has no event for such a monitor.)
Interests == {{"r"}}
\* A timeout argument: <<>> is nil, <<n>> is the number n.
NoTimeout == <<>>
Timeouts == {NoTimeout, <<-1>>, <<0>>, <<1>>}
MonitorIds == 1..MaxMonitors

\* Values handed back to a caller.  tag is the kind of value: "nil",
\* "monitor" (n is its id), "count" (n), "array" (a), "bool" (n is 1 or 0),
\* "ArgumentError" / "IOError" (raised), "undef" (an indeterminate VALUE).
Val(tag, n, a) == [tag |-> tag, n |-> n, a |-> a]
VNil == Val("nil", 0, <<>>)
VMonitor(m) == Val("monitor", m, <<>>)
VCount(n) == Val("count", n, <<>>)
VArray(a) == Val("array", 0, a)
VBool(b) == Val("bool", IF b THEN 1 ELSE 0, <<>>)
VRaise(e) == Val(e, 0, <<>>)
VUndef == Val("undef", 0, <<>>)

\* A value that stands for a raised exception.
Raised(v) == v.tag \in {"ArgumentError", "IOError", "StandardError"}

\* The Ruby array held in selector->ready_array (Qnil or an array).
NoArray == [nil |-> TRUE, a |-> <<>>]
Array(a) == [nil |-> FALSE, a |-> a]

\* ret when the step handed nothing to a caller, and when function fn
\* (called for handle io) handed value v to its caller, thread t.
\* A select call that returns also shows what its run loop did (ghost):
\* events, the monitor callbacks run; seen, the flags its polls found per
\* monitor; visits, the monitors the block was called with, in order; block,
\* whether the call was given a block; drained, the bytes its wakeup
\* callback read from the pipe; timeout, the timeout it was given.
NoReturn == [fn |-> "none", io |-> "-", v |-> VNil, block |-> FALSE, events |-> 0,
             seen |-> [m \in 1..MaxMonitors |-> {}], visits |-> <<>>, drained |-> 0,
             timeout |-> NoTimeout]
Return(t, fn, v) == [NoReturn EXCEPT !.fn = fn, !.v = v]
ReturnFor(t, fn, io, v) == [NoReturn EXCEPT !.fn = fn, !.io = io, !.v = v]

\* Time, in ticks of one polling interval.  now is the time of day; loop is
\* ev_now(ev_loop), the time stamp libev took at its last poll; at is when
\* selector->timer is due; started is started_at of the busy-waiting loop;
\* called (ghost) is the time of day when the run loop of the call began.
\* NoClock: time is not tracked, a timer may be due at any poll.
NoClock == [tracked |-> FALSE, now |-> 0, loop |-> 0, at |-> 0, started |-> 0,
            called |-> 0]
ClockZero == [NoClock EXCEPT !.tracked = TRUE]

\* early (ghost): when the run loop began the wakeup pipe held a byte
\* written while no select call was in flight.  sched: the thread is in
\* rb_thread_schedule() of the busy-waiting loop, after ev_loop returned.
NoOp == [name |-> "none", io |-> "-", interests |-> {}, timeout |-> NoTimeout, block |-> FALSE,
         early |-> FALSE, sched |-> FALSE]

VARIABLES
    mode,          \* the build: "blocking" (HAVE_RB_THREAD_BLOCKING_REGION) or "busywait"
    selectables,   \* @selectables: handle -> monitor id, 0 when absent
    monitors,      \* the NIO::Monitor objects created so far, by id
    mutex,         \* @lock: the thread that holds the Ruby Mutex, or Qnil
    lock_holder,   \* @lock_holder
    ev_loop,       \* selector->ev_loop: "loop" or "null"
    timer,         \* selector->timer: whether the timer is active
    wakeup_pipe,   \* bytes written to wakeup_writer and not yet read
    closed,        \* selector->closed
    selecting,     \* selector->selecting
    ready_count,   \* selector->ready_count
    ready_array,   \* selector->ready_array
    pending,       \* libev's pending events: [wake, rev]
    pc,            \* where each thread is
    op,            \* the synchronized call each thread is making
    ret,           \* what the step just taken handed to a caller: [fn, v, ...]
    crashed,       \* the process died on a use of a destroyed event loop
    finalized,     \* NIO_Selector_free has run
    destroys,      \* ghost: calls of ev_loop_destroy
    fd_closes,     \* ghost: calls of close(2) on [reader, writer]
    visits,        \* ghost: the monitors its block was called with, in order
    polled,        \* ghost: the flags its polls found, per monitor
    drained,       \* ghost: the bytes the wakeup callback read in this run loop
                   \* (0 while kept is "untracked")
    kept,          \* ghost: "yes" when the pipe holds a byte written while no
                   \* select call was in flight, else "no"; or "untracked"
    net,           \* ghost: per handle, whether its last successful register is
                   \* not followed by a deregister
    clock          \* time in ticks, when it is tracked: [now, loop, at, ...]

selVars == <<selectables, monitors, net>>
lockVars == <<mutex, lock_holder>>
engVars == <<ev_loop, timer, pending>>
runVars == <<selecting, ready_count, ready_array>>
lifeVars == <<closed, crashed, finalized, destroys, fd_closes>>
ghostVars == <<visits, polled, drained, kept>>
vars == <<mode, clock, selVars, lockVars, engVars, wakeup_pipe, runVars, lifeVars, pc, op, ret, ghostVars>>

NoPending == [wake |-> FALSE, rev |-> [m \in MonitorIds |-> {}]]

InitState ==
    /\ mode \in {"blocking", "busywait"}
    /\ selectables = [h \in Handles |-> 0]
    /\ monitors = <<>>
    /\ mutex = Qnil
    /\ lock_holder = Qnil
    /\ ev_loop = "loop"
    /\ timer = FALSE
    /\ wakeup_pipe = 0
    /\ closed = FALSE
    /\ selecting = FALSE
    /\ ready_count = 0
    /\ ready_array = NoArray
    /\ pending = NoPending
    /\ pc = [t \in Threads |-> "idle"]
    /\ op = [t \in Threads |-> NoOp]
    /\ ret = NoReturn
    /\ crashed = FALSE
    /\ finalized = FALSE
    /\ destroys = 0
    /\ fd_closes = <<0, 0>>
    /\ visits = <<>>
    /\ polled = [m \in MonitorIds |-> {}]
    /\ drained = 0
    /\ net = [h \in Handles |-> FALSE]

\* The state after Selector.new, time not tracked.
Init == InitState /\ clock = NoClock /\ kept = "untracked"

\* The state after Selector.new at time 0.
InitClock == InitState /\ clock = ClockZero /\ kept = "untracked"

\* The state after Selector.new, the bytes written to the pipe and read
\* from it tracked.
InitKept == InitState /\ clock = NoClock /\ kept = "no"

\* Thread t is inside the critical section of a select call.
Inside(t) == pc[t] \in {"wait", "invoke", "yield"}

\* A thread can run C code of the extension only while no thread sits in a
\* blocking write(2) (which is not wrapped in a blocking region or TRAP_BEG,
\* so it stalls every Ruby thread), the process lives and the object exists.
Running == /\ ~crashed
           /\ ~finalized
           /\ \A t \in Threads : pc[t] # "write"

\* ------------------------------------------------- NIO::Monitor and libev
\* NIO::Monitor.new(io, interests, selector): a fresh monitor watching io.
NIO_Monitor_new(mons, io, interests) ==
    Append(mons, [io |-> io, interests |-> interests, revents |-> {},
                  closes |-> 0])

\* monitor.close(false): the monitor stops watching its handle.
NIO_Monitor_close(mons, m) ==
    [mons EXCEPT ![m].closes = @ + 1]

\* A monitor watches its handle until it is closed.
Watching(mons, m) == m <= Len(mons) /\ mons[m].closes = 0

\* ev_io_stop on a monitor's watcher also drops its pending event.
ev_io_stop(pend, m) == [pend EXCEPT !.rev[m] = {}]

HasPending(pend) == pend.wake \/ \E m \in MonitorIds : pend.rev[m] # {}

\* The events one poll of the event loop finds: the wakeup pipe is readable
\* when it holds a byte, and a watching monitor has an event for the flags of
\* its interests that its handle is ready for (rdy: handle -> ready flags).
ev_poll(mons, pipe, rdy) ==
    [wake |-> pipe > 0,
     rev  |-> [m \in MonitorIds |->
                 IF Watching(mons, m)
                 THEN mons[m].interests \cap rdy[mons[m].io] ELSE {}]]

\* Events found are added to those still pending from an iteration that an
\* exception left early.
ev_merge(pend, found) ==
    [wake |-> pend.wake \/ found.wake,
     rev  |-> [m \in MonitorIds |-> pend.rev[m] \cup found.rev[m]]]

\* ------------------------------------------------------ registration table
\* A variant of register_synchronized without the rb_hash_lookup test: a
\* second register replaces the entry of the handle.
register_overwriting(sel, mons, io, interests) ==
    LET created == NIO_Monitor_new(mons, io, interests)
        monitor == Len(created)
    IN  [selectables |-> [sel EXCEPT ![io] = monitor],
         monitors |-> created, ret |-> VMonitor(monitor)]

\* NIO_Selector_register_synchronized
register_synchronized(sel, mons, io, interests) ==
    IF sel[io] # 0
    THEN [selectables |-> sel, monitors |-> mons, ret |-> VRaise("ArgumentError")]
    ELSE LET created == NIO_Monitor_new(mons, io, interests)
             monitor == Len(created)
         IN  [selectables |-> [sel EXCEPT ![io] = monitor],
              monitors |-> created, ret |-> VMonitor(monitor)]

\* NIO_Selector_deregister_synchronized
deregister_synchronized(sel, mons, io) ==
    LET monitor == sel[io]
    IN  IF monitor # 0
        THEN [selectables |-> [sel EXCEPT ![io] = 0],
              monitors |-> NIO_Monitor_close(mons, monitor), ret |-> VMonitor(monitor)]
        ELSE [selectables |-> sel, monitors |-> mons, ret |-> VNil]

\* NIO_Selector_is_registered: selectables.has_key?(io)
is_registered(sel, io) == sel[io] # 0

\* -------------------------------------------------------------------- lock
\* A variant of NeedsLock that never recognizes the caller as the holder.
NeedsLockAlways(holder, t) == TRUE

\* NIO_Selector_synchronize takes the mutex unless the caller is lock_holder.
NeedsLock(holder, t) == holder # t

\* A variant of MutexFree for a lock that excludes nobody.
MutexIgnored(mtx) == TRUE

\* Mutex#lock returns once no thread holds the mutex.
MutexFree(mtx) == mtx = Qnil

\* NIO_Selector_unlock
NIO_Selector_unlock(t) == [lock_holder |-> Qnil, mutex |-> Qnil]

\* A variant of rb_ensure that skips NIO_Selector_unlock when func raised.
unlock_unless_raised(t, raised) ==
    IF raised THEN [lock_holder |-> t, mutex |-> t] ELSE NIO_Selector_unlock(t)

\* rb_ensure(func, args, NIO_Selector_unlock, self): the lock after func
\* returned or raised.
rb_ensure(t, raised) == NIO_Selector_unlock(t)

\* The value the caller of NIO_Selector_synchronize receives.  The branch
\* taken by a thread that already holds the lock calls func and then leaves
\* the function without a return statement: the value is indeterminate.
synchronize_result(reentrant, value) ==
    IF reentrant THEN {value, VUndef} ELSE {value}

\* ---------------------------------------------------------------- shutdown
\* A variant of NIO_Selector_shutdown without the early return on closed.
shutdown_unguarded(loop, cl, nd, fc) ==
    LET destroy == loop # "null"
    IN  [ev_loop   |-> "null",
         destroys  |-> IF destroy THEN nd + 1 ELSE nd,
         closed    |-> TRUE,
         fd_closes |-> <<fc[1] + 1, fc[2] + 1>>]

\* NIO_Selector_shutdown
NIO_Selector_shutdown(loop, cl, nd, fc) ==
    LET destroy == loop # "null"
    IN  [ev_loop   |-> "null",
         destroys  |-> IF destroy THEN nd + 1 ELSE nd,
         closed    |-> TRUE,
         fd_closes |-> IF cl THEN fc ELSE <<fc[1] + 1, fc[2] + 1>>]

\* A variant of NIO_Selector_wakeup without the test of closed.
wakeup_unguarded(cl, pipe) ==
    IF pipe < PipeCap THEN [blocked |-> FALSE, v |-> VNil, pipe |-> pipe + 1]
    ELSE [blocked |-> TRUE, v |-> VNil, pipe |-> pipe]

\* NIO_Selector_wakeup: the value returned and the pipe afterwards; write(2)
\* on the blocking write end waits (blocked) while the pipe is full.
NIO_Selector_wakeup(cl, pipe) ==
    IF cl THEN [blocked |-> FALSE, v |-> VRaise("IOError"), pipe |-> pipe]
    ELSE IF pipe < PipeCap THEN [blocked |-> FALSE, v |-> VNil, pipe |-> pipe + 1]
    ELSE [blocked |-> TRUE, v |-> VNil, pipe |-> pipe]

\* ------------------------------------------------------------------ select
\* A variant of IsNegative that lets -1 pass.
IsBelowMinusOne(timeout) == timeout # NoTimeout /\ timeout[1] < -1

\* NIO_Selector_select: timeout != Qnil && NUM2DBL(timeout) < 0
IsNegative(timeout) == timeout # NoTimeout /\ timeout[1] < 0

\* A variant of select_return that returns Qnil whatever the run found.
select_return_nothing(block, ready, ra) == VNil

\* The value NIO_Selector_select_synchronized returns for the count `ready`
\* that NIO_Selector_run returned.
select_return(block, ready, ra) ==
    IF ready > 0
    THEN IF block THEN VCount(ready)
         ELSE IF ra.nil THEN VNil ELSE VArray(ra.a)
    ELSE VNil

\* selector->ready_array after NIO_Selector_select_synchronized.
select_array_after(block, ready, ra) ==
    IF ready > 0 /\ block THEN ra ELSE NoArray

\* NIO_Selector_run up to the first call of ev_loop: selecting is set and, in
\* the blocking build, the timer is armed with the timeout or stopped; the
\* busy-waiting build starts the timer with the polling interval.
run_timer(md, timeout) ==
    IF md = "blocking" THEN timeout # NoTimeout ELSE TRUE

\* The condition of the busy-waiting loop.
KeepWaiting(sel, rc) == sel /\ rc = 0

\* Whether the busy-waiting loop finds the timeout elapsed after an
\* iteration: a timeout of 0 has always elapsed.
Elapsed(timeout) == IF timeout = <<0>> THEN {TRUE} ELSE BOOLEAN

\* Number of readiness events a select call left early may leave counted.
MaxStale == 1

\* BUSYWAIT_INTERVAL, in ticks.
BUSYWAIT_INTERVAL == 1

\* The last tick of the time of day.
MaxTime == 3

\* The period of selector->timer: timer.repeat = timeout (+ 0.0001, below a
\* tick) in the blocking build, BUSYWAIT_INTERVAL in the busy-waiting build.
timer_repeat(md, timeout) ==
    IF md = "blocking" THEN (IF timeout = NoTimeout THEN 0 ELSE timeout[1])
    ELSE BUSYWAIT_INTERVAL

\* NIO_Selector_run up to ev_loop: ev_timer_again / ev_timer_start set the
\* timer to ev_now(ev_loop) + repeat (ev_timer_stop leaves it), and the
\* busy-waiting build stores started_at = ev_now(ev_loop).
run_clock(clk, md, timeout) ==
    IF ~clk.tracked THEN clk
    ELSE [clk EXCEPT
            !.at = IF md = "blocking" /\ timeout = NoTimeout THEN @
                   ELSE clk.loop + timer_repeat(md, timeout),
            !.started = IF md = "blocking" THEN @ ELSE clk.loop,
            !.called = clk.now]

\* Whether the poll of ev_loop finds selector->timer due.
TimerDue(clk) == IF clk.tracked THEN {clk.now >= clk.at} ELSE BOOLEAN

\* One iteration of ev_loop: libev takes the time of day as ev_now, and a
\* timer that fired is set again one period on, not before ev_now.
poll_clock(clk, fired, repeat) ==
    IF ~clk.tracked THEN clk
    ELSE [clk EXCEPT
            !.loop = clk.now,
            !.at = IF fired
                   THEN (IF @ + repeat < clk.now THEN clk.now ELSE @ + repeat)
                   ELSE @]

\* The test of the busy-waiting loop after an iteration:
\* ev_now(ev_loop) - started_at >= NUM2DBL(timeout).
TimeoutElapsed(clk, timeout) ==
    IF clk.tracked /\ timeout # NoTimeout
    THEN {clk.loop - clk.started >= timeout[1]}
    ELSE Elapsed(timeout)

\* The orders in which the callbacks of the monitors in S can run.
Orders(S) == {q \in [1..Cardinality(S) -> S] : \A i, j \in 1..Cardinality(S) : q[i] = q[j] => i = j}

\* A variant of wakeup_callback that reads one byte per call.
wakeup_callback_one_byte(cl, pipe) == IF cl \/ pipe = 0 THEN pipe ELSE pipe - 1

\* NIO_Selector_wakeup_callback: the bytes left in the pipe after the loop
\* of non-blocking reads; a read of a closed descriptor fails at once.
wakeup_callback(cl, pipe) == IF cl THEN pipe ELSE 0

\* NIO_Selector_monitor_callback stores the flags of the event in the monitor.
monitor_callback(mons, rev) ==
    [m \in 1..Len(mons) |-> IF rev[m] # {} THEN [mons[m] EXCEPT !.revents = rev[m]] ELSE mons[m]]

NothingSeen == [m \in MonitorIds |-> {}]

\* ----------------------------------------------------------------- actions
\* Frame: rb_ensure runs NIO_Selector_unlock and the call is over.
Unlocked(t) ==
    /\ lock_holder' = rb_ensure(t, Raised(ret'.v)).lock_holder
    /\ mutex' = rb_ensure(t, Raised(ret'.v)).mutex
    /\ pc' = [pc EXCEPT ![t] = "idle"]
    /\ op' = [op EXCEPT ![t] = NoOp]

\* Frame: the end of NIO_Selector_run and NIO_Selector_select_synchronized.
\* rc and ra are ready_count and ready_array as the run loop left them.
SelectReturn(t, rc, ra, ev, seen, vs, dr) ==
    /\ ret' = [Return(t, "select", select_return(op[t].block, rc, ra))
                 EXCEPT !.block = op[t].block, !.events = ev, !.seen = seen,
                        !.visits = vs, !.drained = dr, !.timeout = op[t].timeout]
    /\ selecting' = FALSE
    /\ ready_count' = 0
    /\ ready_array' = select_array_after(op[t].block, rc, ra)
    /\ Unlocked(t)
    /\ visits' = <<>>
    /\ polled' = NothingSeen
    /\ drained' = 0

\* Frame: the body of register under the lock.
RegisterBody(t, io, interests, reentrant) ==
    /\ selectables[io] # 0 \/ Len(monitors) < MaxMonitors
    /\ LET r == register_synchronized(selectables, monitors, io, interests)
       IN  /\ selectables' = r.selectables
           /\ monitors' = r.monitors
           /\ net' = IF r.ret.tag = "ArgumentError" THEN net ELSE [net EXCEPT ![io] = TRUE]
           /\ ret' \in {ReturnFor(t, "register", io, v) :
                          v \in IF r.ret.tag = "ArgumentError" THEN {r.ret}
                                ELSE synchronize_result(reentrant, r.ret)}

\* Frame: the body of deregister under the lock.
DeregisterBody(t, io, reentrant) ==
    LET r == deregister_synchronized(selectables, monitors, io)
    IN  /\ selectables' = r.selectables
        /\ monitors' = r.monitors
        /\ pending' = IF selectables[io] # 0 THEN ev_io_stop(pending, selectables[io])
                      ELSE pending
        /\ net' = [net EXCEPT ![io] = FALSE]
        /\ ret' \in {ReturnFor(t, "deregister", io, v) :
                       v \in synchronize_result(reentrant, r.ret)}

\* Frame: NIO_Selector_select_synchronized and NIO_Selector_run up to the
\* system call of ev_loop.  The busy-waiting loop is not entered when its
\* condition is false at once.
SelectBody(t, timeout, block) ==
    LET ra == IF block THEN ready_array ELSE Array(<<>>)
        o  == [NoOp EXCEPT !.name = "select", !.timeout = timeout, !.block = block,
                           !.early = (kept = "yes")]
    IN  IF mode = "busywait" /\ ~KeepWaiting(TRUE, ready_count)
        THEN /\ ret' = [Return(t, "select", select_return(block, ready_count, ra))
                          EXCEPT !.block = block, !.timeout = timeout]
             /\ selecting' = FALSE
             /\ ready_count' = 0
             /\ ready_array' = select_array_after(block, ready_count, ra)
             /\ Unlocked(t)
             /\ timer' = FALSE
             /\ clock' = run_clock(clock, mode, timeout)
        ELSE /\ mutex' = t
             /\ lock_holder' = t
             /\ ready_array' = ra
             /\ selecting' = TRUE
             /\ timer' = run_timer(mode, timeout)
             /\ clock' = run_clock(clock, mode, timeout)
             /\ pc' = [pc EXCEPT ![t] = "wait"]
             /\ op' = [op EXCEPT ![t] = o]
             /\ ret' = NoReturn
             /\ UNCHANGED ready_count

\* NIO_Selector_register by a thread that does not hold the lock.
RegisterCall(t, io, interests) ==
    /\ Running /\ pc[t] = "idle" /\ NeedsLock(lock_holder, t)
    /\ IF MutexFree(mutex)
       THEN /\ RegisterBody(t, io, interests, FALSE)
            /\ Unlocked(t)
       ELSE /\ pc' = [pc EXCEPT ![t] = "lock"]
            /\ op' = [op EXCEPT ![t] = [NoOp EXCEPT !.name = "register", !.io = io,
                                                    !.interests = interests]]
            /\ ret' = NoReturn
            /\ UNCHANGED <<selVars, lockVars>>
    /\ UNCHANGED <<mode, clock, engVars, wakeup_pipe, runVars, lifeVars, ghostVars>>

\* NIO_Selector_deregister by a thread that does not hold the lock.
DeregisterCall(t, io) ==
    /\ Running /\ pc[t] = "idle" /\ NeedsLock(lock_holder, t)
    /\ IF MutexFree(mutex)
       THEN /\ DeregisterBody(t, io, FALSE)
            /\ Unlocked(t)
       ELSE /\ pc' = [pc EXCEPT ![t] = "lock"]
            /\ op' = [op EXCEPT ![t] = [NoOp EXCEPT !.name = "deregister", !.io = io]]
            /\ ret' = NoReturn
            /\ UNCHANGED <<selVars, lockVars, pending>>
    /\ UNCHANGED <<mode, clock, ev_loop, timer, wakeup_pipe, runVars, lifeVars, ghostVars>>

\* NIO_Selector_select: the timeout is checked before the lock is taken.
SelectCall(t, timeout, block) ==
    /\ Running /\ pc[t] = "idle" /\ NeedsLock(lock_holder, t)
    /\ IF IsNegative(timeout)
       THEN /\ ret' = Return(t, "select", VRaise("ArgumentError"))
            /\ UNCHANGED <<clock, lockVars, timer, runVars, pc, op>>
       ELSE IF MutexFree(mutex)
            THEN SelectBody(t, timeout, block)
            ELSE /\ pc' = [pc EXCEPT ![t] = "lock"]
                 /\ op' = [op EXCEPT ![t] = [NoOp EXCEPT !.name = "select",
                                                         !.timeout = timeout, !.block = block]]
                 /\ ret' = NoReturn
                 /\ UNCHANGED <<clock, lockVars, timer, runVars>>
    /\ UNCHANGED <<mode, selVars, ev_loop, pending, wakeup_pipe, lifeVars, ghostVars>>

\* Mutex#lock returns to a thread that waited for the mutex.
Locked(t) ==
    /\ Running /\ pc[t] = "lock" /\ MutexFree(mutex)
    /\ \/ /\ op[t].name = "register"
          /\ RegisterBody(t, op[t].io, op[t].interests, FALSE)
          /\ Unlocked(t)
          /\ UNCHANGED <<clock, engVars, runVars>>
       \/ /\ op[t].name = "deregister"
          /\ DeregisterBody(t, op[t].io, FALSE)
          /\ Unlocked(t)
          /\ UNCHANGED <<clock, ev_loop, timer, runVars>>
       \/ /\ op[t].name = "select"
          /\ SelectBody(t, op[t].timeout, op[t].block)
          /\ UNCHANGED <<selVars, ev_loop, pending>>
    /\ UNCHANGED <<mode, wakeup_pipe, lifeVars, ghostVars>>

\* The system call inside ev_loop(EVLOOP_ONESHOT) returns to a select call
\* without a block: the poll found the wakeup pipe readable, a monitored
\* handle ready (rdy, chosen by the environment) or the timer due (fire);
\* without any of them it blocks on.  Every pending callback runs, in some
\* order, and ev_loop returns.  The blocking build then leaves
\* NIO_Selector_run; the busy-waiting build calls rb_thread_schedule, which
\* lets the other threads run before the loop goes on (Scheduled).
EvLoopCollect(t) ==
    /\ Running /\ pc[t] = "wait" /\ ~op[t].block /\ ~op[t].sched
    /\ \E rdy \in [Handles -> SUBSET Flags], fire \in TimerDue(clock) :
          LET found == ev_poll(monitors, wakeup_pipe, rdy)
              after == poll_clock(clock, fire /\ timer, timer_repeat(mode, op[t].timeout))
              all   == ev_merge(pending, found)
              ms    == {m \in MonitorIds : all.rev[m] # {}}
              sel   == IF all.wake THEN FALSE ELSE selecting
              rc    == ready_count + Cardinality(ms)
              seen  == [m \in MonitorIds |-> polled[m] \cup found.rev[m]]
              left  == IF all.wake THEN wakeup_callback(closed, wakeup_pipe)
                       ELSE wakeup_pipe
              dr    == IF kept = "untracked" THEN 0 ELSE drained + (wakeup_pipe - left)
          IN  /\ HasPending(found) \/ (fire /\ timer)
              /\ monitors' = monitor_callback(monitors, all.rev)
              /\ wakeup_pipe' = left
              /\ kept' = IF kept = "yes" /\ all.wake THEN "no" ELSE kept
              /\ pending' = NoPending
              /\ clock' = after
              /\ \E order \in Orders(ms) :
                    LET ra == Array(ready_array.a \o order)
                    IN  IF mode = "blocking"
                        THEN /\ SelectReturn(t, rc, ra, Cardinality(ms), seen, visits, dr)
                             /\ UNCHANGED timer
                        ELSE /\ selecting' = sel
                             /\ ready_count' = rc
                             /\ ready_array' = ra
                             /\ polled' = seen
                             /\ drained' = dr
                             /\ op' = [op EXCEPT ![t].sched = TRUE]
                             /\ ret' = NoReturn
                             /\ UNCHANGED <<timer, lockVars, pc, visits>>
    /\ UNCHANGED <<mode, selectables, net, ev_loop, lifeVars>>

\* rb_thread_schedule() returns to the busy-waiting loop of a select call
\* without a block: the loop tests the timeout and its condition and goes
\* back into ev_loop, or stops the timer and NIO_Selector_run returns.  With
\* the event loop destroyed meanwhile, every path from here uses the null
\* pointer (EngineFault).
Scheduled(t) ==
    /\ Running /\ pc[t] = "wait" /\ op[t].sched /\ ev_loop # "null"
    /\ \E late \in TimeoutElapsed(clock, op[t].timeout) :
          IF (op[t].timeout # NoTimeout /\ late) \/ ~KeepWaiting(selecting, ready_count)
          THEN /\ SelectReturn(t, ready_count, ready_array, Len(ready_array.a), polled,
                               visits, drained)
               /\ timer' = FALSE
          ELSE /\ op' = [op EXCEPT ![t].sched = FALSE]
               /\ ret' = NoReturn
               /\ UNCHANGED <<timer, lockVars, runVars, pc, visits, polled, drained>>
    /\ UNCHANGED <<mode, clock, selVars, ev_loop, pending, wakeup_pipe, lifeVars, kept>>

\* The same system call returns to a select call with a block: the callbacks
\* are pending and run one by one, the block between them.
EvLoopPoll(t) ==
    /\ Running /\ pc[t] = "wait" /\ op[t].block
    /\ \E rdy \in [Handles -> SUBSET Flags], fire \in TimerDue(clock) :
          LET found == ev_poll(monitors, wakeup_pipe, rdy)
          IN  /\ HasPending(found) \/ (fire /\ timer)
              /\ clock' = poll_clock(clock, fire /\ timer,
                                     timer_repeat(mode, op[t].timeout))
              /\ pending' = ev_merge(pending, found)
              /\ polled' = [m \in MonitorIds |-> polled[m] \cup found.rev[m]]
    /\ pc' = [pc EXCEPT ![t] = "invoke"]
    /\ ret' = NoReturn
    /\ UNCHANGED <<mode, selVars, lockVars, ev_loop, timer, wakeup_pipe, runVars,
                   lifeVars, op, visits, drained, kept>>

\* NIO_Selector_wakeup_callback: the read of a closed descriptor fails.
InvokeWakeup(t) ==
    /\ Running /\ pc[t] = "invoke" /\ pending.wake
    /\ selecting' = FALSE
    /\ wakeup_pipe' = wakeup_callback(closed, wakeup_pipe)
    /\ drained' = IF kept = "untracked" THEN 0 ELSE drained + (wakeup_pipe - wakeup_pipe')
    /\ kept' = IF kept = "yes" THEN "no" ELSE kept
    /\ pending' = [pending EXCEPT !.wake = FALSE]
    /\ ret' = NoReturn
    /\ UNCHANGED <<mode, clock, selVars, lockVars, ev_loop, timer, ready_count, ready_array,
                   lifeVars, pc, op, visits, polled>>

\* NIO_Selector_monitor_callback for monitor m, up to rb_yield.
InvokeMonitor(t, m) ==
    /\ Running /\ pc[t] = "invoke" /\ pending.rev[m] # {}
    /\ ready_count' = ready_count + 1
    /\ monitors' = monitor_callback(monitors, [k \in MonitorIds |->
                                                 IF k = m THEN pending.rev[m] ELSE {}])
    /\ pending' = [pending EXCEPT !.rev[m] = {}]
    /\ pc' = [pc EXCEPT ![t] = "yield"]
    /\ visits' = Append(visits, m)
    /\ ret' = NoReturn
    /\ UNCHANGED <<mode, clock, selectables, net, lockVars, ev_loop, timer, wakeup_pipe,
                   selecting, ready_array, lifeVars, op, polled, drained, kept>>

\* ev_loop returns to a select call with a block once no callback is pending.
LoopReturn(t) ==
    /\ Running /\ pc[t] = "invoke" /\ ~HasPending(pending)
    /\ IF mode = "blocking"
       THEN SelectReturn(t, ready_count, ready_array, Len(visits), polled, visits, drained)
            /\ UNCHANGED timer
       ELSE \E late \in TimeoutElapsed(clock, op[t].timeout) :
               IF (op[t].timeout # NoTimeout /\ late) \/ ~KeepWaiting(selecting, ready_count)
               THEN /\ SelectReturn(t, ready_count, ready_array, Len(visits), polled, visits, drained)
                    /\ timer' = FALSE
               ELSE /\ pc' = [pc EXCEPT ![t] = "wait"]
                    /\ ret' = NoReturn
                    /\ UNCHANGED <<timer, lockVars, runVars, op, ghostVars>>
    /\ UNCHANGED <<mode, clock, selVars, ev_loop, pending, wakeup_pipe, lifeVars, kept>>

\* The block given to select returns.
VisitorReturn(t) ==
    /\ Running /\ pc[t] = "yield"
    /\ pc' = [pc EXCEPT ![t] = "invoke"]
    /\ ret' = NoReturn
    /\ UNCHANGED <<mode, clock, selVars, lockVars, engVars, wakeup_pipe, runVars, lifeVars,
                   op, ghostVars>>

\* The block raises: the exception leaves ev_loop and NIO_Selector_run at
\* once and rb_ensure runs NIO_Selector_unlock.
VisitorRaise(t) ==
    /\ Running /\ pc[t] = "yield" /\ ready_count <= MaxStale
    /\ ret' = Return(t, "select", VRaise("StandardError"))
    /\ Unlocked(t)
    /\ visits' = <<>>
    /\ polled' = NothingSeen
    /\ drained' = 0
    /\ UNCHANGED <<mode, clock, selVars, engVars, wakeup_pipe, runVars, lifeVars, kept>>

\* The block calls register: the caller is lock_holder, func runs directly.
\* (A caller that went for the mutex it holds would get ThreadError from
\* Mutex#lock.)
VisitorRegister(t, io, interests) ==
    /\ Running /\ pc[t] = "yield"
    /\ IF NeedsLock(lock_holder, t)
       THEN /\ ret' = ReturnFor(t, "register", io, VRaise("ThreadError"))
            /\ UNCHANGED selVars
       ELSE RegisterBody(t, io, interests, TRUE)
    /\ UNCHANGED <<mode, clock, lockVars, engVars, wakeup_pipe, runVars, lifeVars, pc, op,
                   ghostVars>>

\* The block calls deregister.
VisitorDeregister(t, io) ==
    /\ Running /\ pc[t] = "yield"
    /\ IF NeedsLock(lock_holder, t)
       THEN /\ ret' = ReturnFor(t, "deregister", io, VRaise("ThreadError"))
            /\ UNCHANGED <<selVars, pending>>
       ELSE DeregisterBody(t, io, TRUE)
    /\ UNCHANGED <<mode, clock, lockVars, ev_loop, timer, wakeup_pipe, runVars, lifeVars, pc, op,
                   ghostVars>>

\* NIO_Selector_is_registered
IsRegistered(t, io) ==
    /\ Running /\ pc[t] = "idle"
    /\ ret' = ReturnFor(t, "registered?", io, VBool(is_registered(selectables, io)))
    /\ UNCHANGED <<mode, clock, selVars, lockVars, engVars, wakeup_pipe, runVars, lifeVars, pc,
                   op, ghostVars>>

\* NIO_Selector_wakeup, called without the selector lock.
Wakeup(t) ==
    /\ Running /\ pc[t] = "idle"
    /\ LET w == NIO_Selector_wakeup(closed, wakeup_pipe)
       IN  /\ wakeup_pipe' = w.pipe
           /\ pc' = [pc EXCEPT ![t] = IF w.blocked THEN "write" ELSE "idle"]
           /\ ret' = IF w.blocked THEN NoReturn ELSE Return(t, "wakeup", w.v)
           /\ kept' = IF kept = "no" /\ w.pipe > wakeup_pipe /\ \A u \in Threads : ~Inside(u)
                      THEN "yes" ELSE kept
    /\ UNCHANGED <<mode, clock, selVars, lockVars, engVars, runVars, lifeVars, op, visits,
                   polled, drained>>

\* NIO_Selector_close
Close(t) ==
    /\ Running /\ pc[t] = "idle"
    /\ LET s == NIO_Selector_shutdown(ev_loop, closed, destroys, fd_closes)
       IN  /\ ev_loop' = s.ev_loop
           /\ destroys' = s.destroys
           /\ closed' = s.closed
           /\ fd_closes' = s.fd_closes
    /\ ret' = Return(t, "close", VNil)
    /\ UNCHANGED <<mode, clock, selVars, lockVars, timer, pending, wakeup_pipe, runVars, crashed,
                   finalized, pc, op, ghostVars>>

\* NIO_Selector_closed
IsClosed(t) ==
    /\ Running /\ pc[t] = "idle"
    /\ ret' = Return(t, "closed?", VBool(closed))
    /\ UNCHANGED <<mode, clock, selVars, lockVars, engVars, wakeup_pipe, runVars, lifeVars, pc,
                   op, ghostVars>>

\* NIO_Selector_free: the garbage collector finalizes the object once no
\* thread is inside one of its methods.
Free ==
    /\ Running /\ \A t \in Threads : pc[t] = "idle"
    /\ LET s == NIO_Selector_shutdown(ev_loop, closed, destroys, fd_closes)
       IN  /\ ev_loop' = s.ev_loop
           /\ destroys' = s.destroys
           /\ closed' = s.closed
           /\ fd_closes' = s.fd_closes
    /\ finalized' = TRUE
    /\ ret' = NoReturn
    /\ UNCHANGED <<mode, clock, selVars, lockVars, timer, pending, wakeup_pipe, runVars, crashed,
                   pc, op, ghostVars>>

\* A thread inside ev_loop uses the event loop after ev_loop_destroy (or the
\* null pointer left by it): the process may die, or go on as above.
EngineFault(t) ==
    /\ Running /\ pc[t] \in {"wait", "invoke"} /\ ev_loop = "null"
    /\ crashed' = TRUE
    /\ ret' = NoReturn
    /\ UNCHANGED <<mode, clock, selVars, lockVars, engVars, wakeup_pipe, runVars, closed,
                   finalized, destroys, fd_closes, pc, op, ghostVars>>

\* A tick of the time of day.  A thread whose poll finds the timer due is
\* woken before the next tick; a block given to select and the threads run
\* by rb_thread_schedule take no time.
Tick ==
    /\ Running /\ clock.tracked /\ clock.now < MaxTime
    /\ \A t \in Threads :
          \/ pc[t] \in {"idle", "lock"}
          \/ pc[t] = "wait" /\ ~op[t].sched /\ ~(timer /\ clock.now >= clock.at)
    /\ clock' = [clock EXCEPT !.now = @ + 1]
    /\ ret' = NoReturn
    /\ UNCHANGED <<mode, selVars, lockVars, engVars, wakeup_pipe, runVars, lifeVars, pc,
                   op, ghostVars>>

\* The calls on the registration table, on the handles in H.
Registration(H) ==
    \/ \E t \in Threads, io \in H, i \in Interests : RegisterCall(t, io, i)
    \/ \E t \in Threads, io \in H : DeregisterCall(t, io)
    \/ \E t \in Threads, io \in H : IsRegistered(t, io)

\* select and the steps of its run loop.
Selection ==
    \/ \E t \in Threads, timeout \in Timeouts, block \in BOOLEAN : SelectCall(t, timeout, block)
    \/ \E t \in Threads : Locked(t)
    \/ \E t \in Threads : EvLoopCollect(t)
    \/ \E t \in Threads : Scheduled(t)
    \/ \E t \in Threads : EvLoopPoll(t)
    \/ \E t \in Threads, m \in MonitorIds : InvokeMonitor(t, m)
    \/ \E t \in Threads : LoopReturn(t)
    \/ \E t \in Threads : VisitorReturn(t)

\* What the block given to select does besides returning.
Visitor(H) ==
    \/ \E t \in Threads : VisitorRaise(t)
    \/ \E t \in Threads, io \in H, i \in Interests : VisitorRegister(t, io, i)
    \/ \E t \in Threads, io \in H : VisitorDeregister(t, io)

\* close, closed? and the finalizer.
Lifecycle ==
    \/ \E t \in Threads : Close(t)
    \/ \E t \in Threads : IsClosed(t)
    \/ Free
    \/ \E t \in Threads : EngineFault(t)

\* wakeup and the callback of the wakeup pipe.
Waking ==
    \/ \E t \in Threads : Wakeup(t)
    \/ \E t \in Threads : InvokeWakeup(t)

Next == Registration(Handles) \/ Selection \/ Visitor(Handles) \/ Waking \/ Lifecycle

\* Every operation, every interleaving.
Spec == Init /\ [][Next]_vars

\* The registration table and select on two handles, the selector kept open.
NextTable == Registration(Handles) \/ Selection \/ Visitor(Handles)
TableSpec == Init /\ [][NextTable]_vars

\* The same calls on one handle: a register meets the entry an earlier
\* register left, from another thread or from the block given to select.
OneHandle == {"h1"}
NextLock == Registration(OneHandle) \/ Selection \/ Visitor(OneHandle)
LockSpec == Init /\ [][NextLock]_vars

\* The calls of the threads with wakeup, close and the finalizer, one handle
\* in use, the block given to select only returning.
NextLife == Registration(OneHandle) \/ Selection \/ Waking \/ Lifecycle
LifeSpec == Init /\ [][NextLife]_vars

\* select with the time of day tracked: one handle, no wakeup.
NextTime == Registration(OneHandle) \/ Selection \/ Tick
TimeSpec == InitClock /\ [][NextTime]_vars

\* select woken from another thread, with one handle in use and the selector
\* kept open.  The system call inside ev_loop returns once the wakeup pipe is
\* readable, libev runs every pending callback, a block given to select
\* returns, and Mutex#lock returns once the mutex is free.  The timer alone
\* forces nothing here.
NextWake == Registration(OneHandle) \/ Selection \/ Waking
Fairness ==
    \A t \in Threads :
        /\ WF_vars(Locked(t))
        /\ WF_vars(wakeup_pipe > 0 /\ EvLoopCollect(t))
        /\ WF_vars(Scheduled(t))
        /\ WF_vars(wakeup_pipe > 0 /\ EvLoopPoll(t))
        /\ WF_vars(InvokeWakeup(t))
        /\ WF_vars(\E m \in MonitorIds : InvokeMonitor(t, m))
        /\ WF_vars(LoopReturn(t))
        /\ WF_vars(VisitorReturn(t))
WakeSpec == Init /\ [][NextWake]_vars /\ Fairness

\* The same steps with nothing forced, the bytes read from the pipe counted.
NotifySpec == InitKept /\ [][NextWake]_vars

\* select with a block that may raise or call back into the selector, and
\* wakeup, one handle in use.
NextAbort == NextLock \/ Waking
AbortSpec == InitKept /\ [][NextAbort]_vars

\* ---------------------------------------------------------------- properties

Range(q) == {q[i] : i \in 1..Len(q)}
Distinct(q) == \A i, j \in 1..Len(q) : q[i] = q[j] => i = j

\* Everything but ret.
state == <<mode, clock, selVars, lockVars, engVars, wakeup_pipe, runVars, lifeVars, pc, op,
           ghostVars>>

\* C1: a select call that is blocked in the event loop while the wakeup pipe
\* holds a byte written by wakeup eventually returns, whatever its timeout.
C1_WakeupInterruptsSelect ==
    \A t \in Threads : (pc[t] = "wait" /\ wakeup_pipe > 0) ~> (pc[t] = "idle")

\* Each entry of the table is a monitor that watches that handle, and each
\* watching monitor is the entry of its handle.
TableConsistent ==
    /\ \A h \in Handles :
          selectables[h] # 0 =>
             /\ Watching(monitors, selectables[h])
             /\ monitors[selectables[h]].io = h
    /\ \A m \in MonitorIds :
          Watching(monitors, m) => selectables[monitors[m].io] = m

\* C2: a handle has at most one entry and one watching monitor, and register
\* on a registered handle raises ArgumentError, creates no monitor and leaves
\* the table and the monitor stored for the handle as they were.
C2_RegisterTwiceFails ==
    [][ /\ TableConsistent'
        /\ (ret'.fn = "register" /\ selectables[ret'.io] # 0) =>
              /\ ret'.v = VRaise("ArgumentError")
              /\ selectables' = selectables
              /\ monitors' = monitors ]_vars

\* register has just failed on a handle that is still registered.
C2_Witness ==
    /\ ret.fn = "register" /\ ret.v = VRaise("ArgumentError")
    /\ selectables[ret.io] # 0
    /\ Watching(monitors, selectables[ret.io])

\* C3: registered?(h) is true exactly when the last successful register(h)
\* is not followed by a deregister(h); deregister of a registered handle
\* removes the entry, closes its monitor once and returns that monitor;
\* deregister of an absent handle returns nil and changes nothing.
C3_DeregisterReturnsMonitor ==
    [][ /\ ret'.fn = "registered?" => ret'.v = VBool(net[ret'.io])
        /\ ret'.fn = "deregister" =>
              LET monitor == selectables[ret'.io]
              IN  IF monitor # 0
                  THEN /\ selectables' = [selectables EXCEPT ![ret'.io] = 0]
                       /\ monitors'[monitor].closes = 1
                       /\ monitors[monitor].closes = 0
                       /\ ret'.v = VMonitor(monitor)
                  ELSE /\ ret'.v = VNil
                       /\ selectables' = selectables
                       /\ monitors' = monitors ]_vars

\* C4: with a block select returns the number n of readiness events of its
\* run when n > 0 and nil when n = 0; without a block it returns the array of
\* the n ready monitors when n > 0 and nil when n = 0.
C4_SelectReturnValue ==
    (ret.fn = "select" /\ ~Raised(ret.v)) =>
        IF ret.events = 0 THEN ret.v = VNil
        ELSE IF ret.block THEN ret.v = VCount(ret.events)
        ELSE ret.v.tag = "array" /\ Len(ret.v.a) = ret.events

\* The monitors a select call that returned has reported to its caller.
Reported(r) == IF r.block THEN r.visits ELSE r.v.a

\* C5: a select call reports each monitor whose handle its polls found ready
\* exactly once (a monitor deregistered by the block before its turn aside),
\* the count returned is the number of calls of the block, the array returned
\* has one element per ready handle, and each reported monitor holds the
\* flags found.
C5_ReadyReportedOnce ==
    (ret.fn = "select" /\ ~Raised(ret.v)) =>
        LET reported == Reported(ret)
            ready == {m \in MonitorIds : ret.seen[m] # {}}
        IN  /\ Distinct(reported)
            /\ Range(reported) \subseteq ready
            /\ \A m \in ready \ Range(reported) : ~Watching(monitors, m)
            /\ ret.block =>
                  ret.v = IF Len(ret.visits) > 0 THEN VCount(Len(ret.visits)) ELSE VNil
            /\ ~ret.block =>
                  /\ ret.v.tag \in {"array", "nil"}
                  /\ Len(ret.v.a) = Cardinality({monitors[m].io : m \in ready})
            /\ \A m \in Range(reported) : monitors[m].revents = ret.seen[m]

\* C6: at most one thread is inside the critical section; lock_holder is a
\* thread only while that thread is inside and holds the mutex; register and
\* deregister run only while no other thread is inside.
C6_MutualExclusion ==
    [][ /\ \A t, u \in Threads : (Inside(t) /\ Inside(u))' => t = u
        /\ lock_holder' # Qnil => (mutex = lock_holder /\ Inside(lock_holder))'
        /\ \A t \in Threads : Inside(t)' => (lock_holder = t /\ mutex = t)'
        /\ ret'.fn \in {"register", "deregister"} =>
              \A t \in Threads : Inside(t) => pc[t] = "yield" ]_vars

\* One thread is inside the run loop while the other waits for the mutex.
C6_Witness ==
    \E t, u \in Threads : pc[t] = "wait" /\ lock_holder = t /\ pc[u] = "lock"

\* C7: once closed is true, register, select and wakeup fail or do nothing:
\* register and wakeup raise, the table and the wakeup pipe stay as they
\* were, no select call enters the event loop and nothing faults on the
\* destroyed loop.
C7_NothingAfterClose ==
    [][ closed =>
          /\ ret'.fn = "register" =>
                (Raised(ret'.v) /\ selectables' = selectables /\ monitors' = monitors)
          /\ ret'.fn = "wakeup" => (Raised(ret'.v) /\ wakeup_pipe' = wakeup_pipe)
          /\ \A t \in Threads : pc[t] = "idle" => pc'[t] # "wait" ]_vars

\* C8: the event loop is destroyed at most once and each end of the wakeup
\* pipe closed at most once, exactly once when the selector is closed or
\* finalized; close returns nil, close on a closed selector changes nothing,
\* and closed never returns to false.
C8_ShutdownOnce ==
    [][ /\ destroys' <= 1 /\ fd_closes'[1] <= 1 /\ fd_closes'[2] <= 1
        /\ (closed' \/ finalized') =>
              (destroys' = 1 /\ fd_closes' = <<1, 1>> /\ closed' /\ ev_loop' = "null")
        /\ ~closed' => (destroys' = 0 /\ fd_closes' = <<0, 0>>)
        /\ closed => closed'
        /\ ret'.fn = "close" => (ret'.v = VNil /\ closed')
        /\ (closed /\ ret'.fn = "close") => UNCHANGED state ]_vars

\* The selector has been finalized: the loop destroyed once, both ends of
\* the pipe closed once.
C8_Witness ==
    /\ finalized /\ closed
    /\ destroys = 1 /\ fd_closes = <<1, 1>>

\* C9: wakeup on an open selector returns nil having written exactly one
\* byte (or waits in write(2), nothing written yet), wakeup on a closed
\* selector raises IOError and writes nothing; neither touches the lock.
C9_WakeupWritesOneByte ==
    [][ \A t \in Threads :
          Wakeup(t) =>
             /\ UNCHANGED lockVars
             /\ IF closed
                THEN ret'.v = VRaise("IOError") /\ wakeup_pipe' = wakeup_pipe
                ELSE \/ ret'.fn = "wakeup" /\ ret'.v = VNil
                        /\ wakeup_pipe' = wakeup_pipe + 1
                     \/ ret'.fn = "none" /\ pc'[t] = "write"
                        /\ wakeup_pipe' = wakeup_pipe ]_vars

\* wakeup has returned nil while another thread holds the selector lock.
C9_Witness ==
    /\ ret.fn = "wakeup" /\ ret.v = VNil
    /\ wakeup_pipe > 0
    /\ \E t \in Threads : lock_holder = t /\ pc[t] = "wait"

\* C10: select with a negative timeout raises ArgumentError and changes
\* nothing (no lock, no timer, no run of the event loop); timeouts 0 and nil
\* are accepted.
C10_NegativeTimeoutRejected ==
    [][ /\ \A t \in Threads, b \in BOOLEAN :
              SelectCall(t, <<-1>>, b) =>
                 (ret'.v = VRaise("ArgumentError") /\ UNCHANGED state)
        /\ (ret'.fn = "select" /\ ret'.v = VRaise("ArgumentError")) => UNCHANGED state
        /\ \A t \in Threads, b \in BOOLEAN, timeout \in {NoTimeout, <<0>>} :
              SelectCall(t, timeout, b) => ret'.v # VRaise("ArgumentError")
        /\ \A t \in Threads : ~IsNegative(op'[t].timeout) ]_vars

\* select has just raised ArgumentError while another thread is inside the
\* run loop with a handle registered.
C10_Witness ==
    /\ ret.fn = "select" /\ ret.v = VRaise("ArgumentError")
    /\ \E t \in Threads : pc[t] = "wait" /\ selecting /\ timer
    /\ \E h \in Handles : selectables[h] # 0

\* C11: a select call with a timeout that returns without having found a
\* handle ready (and without a wakeup) returns nil, not before the timeout
\* has passed since its run loop began and, in the busy-waiting build, not
\* later than the timeout plus one polling interval.
C11_TimeoutBounds ==
    [][ \A t \in Threads :
          ( /\ pc[t] \in {"wait", "invoke"} /\ pc'[t] = "idle"
            /\ ret'.fn = "select" /\ op[t].timeout # NoTimeout
            /\ ret'.events = 0 /\ ret'.seen = NothingSeen )
          => /\ ret'.v = VNil
             /\ clock'.now - clock.called >= op[t].timeout[1]
             /\ mode = "busywait" =>
                   clock'.now - clock.called <= op[t].timeout[1] + BUSYWAIT_INTERVAL ]_vars


\* C12: wakeups written before the run loop reads any of them interrupt one
\* select call.  The wakeup callback runs at most once in a select call; when
\* it runs it reads every byte written so far, clears selecting and leaves
\* the pipe empty, so none of those bytes is there for a later poll; and an
\* event of the pipe is pending only while the pipe holds a byte.
C12_WakeupsCoalesce ==
    [][ /\ drained' > drained =>
              /\ drained = 0
              /\ drained' = wakeup_pipe
              /\ wakeup_pipe' = 0
              /\ ~selecting'
              /\ ~pending'.wake
        /\ (ret'.fn = "select" /\ ret'.drained > drained) =>
              /\ drained = 0
              /\ ret'.drained = wakeup_pipe
              /\ wakeup_pipe' = 0
              /\ ~pending'.wake
        /\ pending'.wake => wakeup_pipe' > 0 ]_vars

\* A select call returns after its wakeup callback read two bytes at once.
C12_Witness ==
    /\ ret.fn = "select"
    /\ ret.drained >= 2
    /\ wakeup_pipe = 0


\* A select call without a timeout returns to thread t after its wakeup
\* callback ran.
WokenReturn(t) ==
    /\ pc[t] \in {"wait", "invoke"} /\ pc'[t] = "idle"
    /\ ret'.fn = "select" /\ ret'.timeout = NoTimeout
    /\ ret'.drained > 0

FailedReturn(t) ==
    \/ /\ pc[t] \in {"idle", "lock"} /\ pc'[t] = "idle"
       /\ NeedsLock(lock_holder, t)
       /\ \A u \in Threads : pc[u] # "yield"
       /\ ret'.fn = "register" /\ ret'.v.tag = "ArgumentError"
    \/ /\ pc[t] = "yield" /\ pc'[t] = "idle"
       /\ ret'.fn = "select" /\ Raised(ret'.v)

\* C14: a failing operation does not leave the selector locked.  When a
\* register that raises ArgumentError for a registered handle, or a select
\* whose block raised, returns to the caller of the outermost synchronized
\* call, the mutex is unlocked and @lock_holder is nil, so a thread waiting
\* in Mutex#lock can take the lock.
C14_FailureUnlocks ==
    [][ \A t \in Threads :
          FailedReturn(t) => /\ mutex' = Qnil
                             /\ lock_holder' = Qnil
                             /\ MutexFree(mutex') ]_vars

\* The block given to select raised while another thread waited for the
\* lock; the lock is free again.
C14_Witness ==
    /\ ret.fn = "select" /\ ret.v = VRaise("StandardError")
    /\ mutex = Qnil /\ lock_holder = Qnil
    /\ \E u \in Threads : pc[u] = "lock"

\* C15: the state of the selector is changed only under its lock.  While a
\* thread is inside select, between Mutex#lock and NIO_Selector_unlock, it
\* holds the lock, and no step of any thread destroys the event loop or
\* sets closed.
C15_MutatedUnderLock ==
    [][ \A t \in Threads :
          Inside(t) => /\ lock_holder = t
                       /\ closed' = closed
                       /\ ev_loop' = ev_loop
                       /\ destroys' = destroys ]_vars


\* C16: register and deregister called from the block given to select, by
\* the thread that holds the lock, run directly: the call returns in the
\* same step, without waiting for the mutex, the table is updated, and the
\* mutex and @lock_holder stay with that thread, which keeps the lock until
\* its select call is over.
C16_NestedCallRunsDirectly ==
    [][ \A t \in Threads :
          /\ \A io \in Handles :
                /\ (\E i \in Interests : VisitorRegister(t, io, i)) =>
                      /\ ret'.fn = "register" /\ ret'.io = io
                      /\ IF selectables[io] # 0
                         THEN ret'.v = VRaise("ArgumentError") /\ selectables' = selectables
                         ELSE /\ ret'.v \in {VMonitor(selectables'[io]), VUndef}
                              /\ selectables'[io] = Len(monitors')
                              /\ Len(monitors') = Len(monitors) + 1
                              /\ Watching(monitors', selectables'[io])
                /\ VisitorDeregister(t, io) =>
                      /\ ret'.fn = "deregister" /\ ret'.io = io
                      /\ ~Raised(ret'.v)
                      /\ selectables'[io] = 0
                      /\ selectables[io] # 0 => ~Watching(monitors', selectables[io])
          /\ pc[t] = "yield" =>
                /\ mutex = t /\ lock_holder = t
                /\ pc'[t] # "lock"
                /\ pc'[t] = "idle" \/ (mutex' = t /\ lock_holder' = t) ]_vars

\* The block given to select registered a handle and still runs, the lock
\* held by its thread.
C16_Witness ==
    /\ ret.fn = "register" /\ ret.v.tag \in {"monitor", "undef"}
    /\ \E t \in Threads : pc[t] = "yield" /\ mutex = t /\ lock_holder = t


\* C17: a synchronized call returns the same value whether or not its
\* caller holds the lock.  register called from the block given to select
\* returns what NIO_Selector_register_synchronized returned (the new
\* monitor), deregister what NIO_Selector_deregister_synchronized returned
\* (the removed monitor, or nil), as the same call made without the lock.
C17_NestedCallSameResult ==
    [][ \A t \in Threads, io \in Handles :
          /\ \A i \in Interests :
                VisitorRegister(t, io, i) =>
                   ret'.v = register_synchronized(selectables, monitors, io, i).ret
          /\ VisitorDeregister(t, io) =>
                ret'.v = deregister_synchronized(selectables, monitors, io).ret ]_vars


\* C18: whenever no select call is in flight, selecting is false,
\* ready_count is 0 and ready_array is nil, also after a select call that
\* its block left by raising.
C18_IdleRunState ==
    (\A t \in Threads : ~Inside(t)) =>
        /\ ~selecting
        /\ ready_count = 0
        /\ ready_array = NoArray


\* C19: a wakeup issued while no select call is in flight is kept: its byte
\* goes into the pipe and stays there until a wakeup callback runs; the
\* next select call, whatever its timeout, finds it in its first poll and
\* returns nil when no monitored handle was ready; and the callback leaves
\* the pipe empty, so the select call after that one does not see the
\* wakeup.
C19_WakeupKept ==
    [][ /\ ((\A t \in Threads : ~Inside(t)) /\ ret'.fn = "wakeup" /\ ret'.v = VNil) =>
              wakeup_pipe' = wakeup_pipe + 1
        /\ wakeup_pipe' < wakeup_pipe =>
              /\ wakeup_pipe' = 0
              /\ \E t \in Threads : pc[t] \in {"wait", "invoke"}
        /\ \A t \in Threads :
              ( /\ pc[t] \in {"wait", "invoke"} /\ op[t].early
                /\ pc'[t] = "idle" /\ ret'.fn = "select"
                /\ ret'.events = 0 ) =>
                   /\ ret'.drained > 0
                   /\ ret'.v = VNil ]_vars


\* C20: wakeup on an open selector returns to its caller whatever the number
\* of wakeups since the pipe was last drained: no thread is ever left in the
\* write(2) of NIO_Selector_wakeup.
C20_WakeupReturns ==
    \A t \in Threads : pc[t] # "write"

====
